---- MODULE Spec2Model ----
(***************************************************************************)
(* Model of the crawl engine of src/crawler.py: MultiSiteCrawler.__init__, *)
(* MultiSiteCrawler.crawl, BaseCrawler.crawl, build_driver and             *)
(* MultiSiteCrawler._deduplicate.                                          *)
(*                                                                         *)
(* Strings that the code trims are sequences of one-character strings, so  *)
(* that str.strip() is a computation and not the identity.  The browser,   *)
(* the web pages and the adapters' parse_page are the environment: every   *)
(* call into them either returns or raises, chosen nondeterministically.   *)
(* WebDriver.quit() is taken not to raise.                                 *)
(***************************************************************************)
EXTENDS Integers, Sequences, FiniteSets, TLC

VARIABLES
    sites,       \* the `sites` argument of MultiSiteCrawler.__init__
    pages,       \* the `pages_per_site` argument of MultiSiteCrawler.crawl
    mpc,         \* where MultiSiteCrawler is: new, config_error, constructed, crawling, done, raised
    errorKeys,   \* the keys named by the ValueError of __init__
    crawlers,    \* self.crawlers: one record [key, driver] per adapter; driver is self._driver
    ci,          \* position of the `for crawler in self.crawlers` loop
    all_items,   \* all_items of MultiSiteCrawler.crawl
    returned,    \* the list MultiSiteCrawler.crawl returned
    pc,          \* where BaseCrawler.crawl is: idle, build_driver, loop, wait, parse, pace, except, finally, return
    page,        \* the loop variable of BaseCrawler.crawl
    results,     \* results of BaseCrawler.crawl
    sessions,    \* every browser session ever opened: [owner, quits], owner the call of BaseCrawler.crawl (its place in runs)
    runs,        \* history: one record per call of BaseCrawler.crawl
    faults,      \* how many calls into the browser or a parser have failed so far
    dd_pc,       \* the deduplication harness: off, input, once, twice
    dd_in,       \* its input list
    dd_out,      \* _deduplicate(dd_in)
    dd_out2,     \* _deduplicate(dd_out)
    pp_pc,       \* parse_page on its own: off, cards, done, raised
    pp_site,     \* the adapter whose parse_page runs
    pp_n,        \* how many cards find_elements gave it
    pp_items,    \* items of parse_page
    pp_log,      \* history: what each card read so far had, and what became of it
    st_pc,       \* _score_title on its own: off, input, scored
    st_title,    \* its argument
    st_result    \* the SentimentResult it returned

vars == <<sites, pages, mpc, errorKeys, crawlers, ci, all_items, returned,
          pc, page, results, sessions, runs, faults,
          dd_pc, dd_in, dd_out, dd_out2,
          pp_pc, pp_site, pp_n, pp_items, pp_log, st_pc, st_title, st_result>>

crawlVars == <<sites, pages, mpc, errorKeys, crawlers, ci, all_items, returned,
               pc, page, results, sessions, runs, faults>>

ddVars == <<dd_pc, dd_in, dd_out, dd_out2>>

parseVars == <<pp_pc, pp_site, pp_n, pp_items, pp_log>>

sentVars == <<st_pc, st_title, st_result>>

-----------------------------------------------------------------------------
(* Bounds of the model *)

\* the largest pages_per_site
MaxPages == 3

\* the most failures (timeouts and exceptions) the environment produces in one crawl
MaxFaults == 2

\* the longest list given to _deduplicate on its own
MaxItems == 3

\* the most page visits asked of one crawl: sites times pages_per_site
MaxVisits == 6

\* the most page visits asked of a crawl that is called more than once
MaxRevisits == 2

-----------------------------------------------------------------------------
(* Strings and records *)

Whitespace == {" "}

RECURSIVE LStrip(_)
LStrip(s) ==
    IF s # <<>> /\ Head(s) \in Whitespace THEN LStrip(Tail(s)) ELSE s

RECURSIVE RStrip(_)
RStrip(s) ==
    IF s # <<>> /\ s[Len(s)] \in Whitespace
    THEN RStrip(SubSeq(s, 1, Len(s) - 1))
    ELSE s

\* str.strip()
Strip(s) == RStrip(LStrip(s))

\* NewsItem
NewsItem(title, press, pub_time, url, source) ==
    [title |-> title, press |-> press, pub_time |-> pub_time, url |-> url,
     source |-> source, crawled_at |-> "now"]

-----------------------------------------------------------------------------
(* MultiSiteCrawler._deduplicate *)

\* Faulty variant: the key is taken from the fields as they are.
DedupKeyUntrimmed(item) ==
    IF item.url # <<>> THEN item.url ELSE item.title

\* key = item.url.strip() if item.url.strip() else item.title.strip()
DedupKey(item) ==
    IF Strip(item.url) # <<>> THEN Strip(item.url) ELSE Strip(item.title)

RECURSIVE DedupLoop(_, _, _, _)
DedupLoop(items, i, seen, unique) ==
    IF i > Len(items) THEN unique
    ELSE LET key == DedupKey(items[i])
         IN  IF key \notin seen
             THEN DedupLoop(items, i + 1, seen \cup {key}, Append(unique, items[i]))
             ELSE DedupLoop(items, i + 1, seen, unique)

\* Faulty variant: the last occurrence of a key is the one kept.
RECURSIVE DedupLastWins(_, _)
DedupLastWins(items, i) ==
    IF i > Len(items) THEN <<>>
    ELSE IF \E j \in (i + 1)..Len(items) : DedupKey(items[j]) = DedupKey(items[i])
         THEN DedupLastWins(items, i + 1)
         ELSE <<items[i]>> \o DedupLastWins(items, i + 1)

DeduplicateLastWins(items) == DedupLastWins(items, 1)

\* Faulty variant: the loop starts at the second record.
DeduplicateFromSecond(items) == DedupLoop(items, 2, {}, <<>>)

\* Faulty variant: the records kept get their url trimmed.
DeduplicateNormalizes(items) ==
    LET unique == DedupLoop(items, 1, {}, <<>>)
    IN  [i \in 1..Len(unique) |-> [unique[i] EXCEPT !.url = Strip(@)]]

Deduplicate(items) == DedupLoop(items, 1, {}, <<>>)

-----------------------------------------------------------------------------
(* The registry and MultiSiteCrawler.__init__ *)

\* _REGISTRY, in insertion order
RegistryKeys == <<"naver", "daum", "hankyung">>

Registry == {RegistryKeys[i] : i \in 1..Len(RegistryKeys)}

UnknownKeys == {"bbc", "cnn"}

\* A request is None (given = FALSE) or a list of keys.
None == [given |-> FALSE, keys |-> <<>>]

RequestLists ==
    {<<>>, <<"naver">>, <<"daum">>, <<"hankyung">>,
     <<"daum", "naver">>, <<"hankyung", "hankyung">>,
     <<"bbc">>, <<"naver", "bbc">>, <<"cnn", "daum", "bbc">>, <<"bbc", "bbc">>}

Requests == {None} \cup {[given |-> TRUE, keys |-> k] : k \in RequestLists}

PageCounts == (0 - 1)..MaxPages

\* Faulty variant: only None stands for every site, an empty list stays empty.
TargetKeysNoneOnly(s) ==
    IF s.given THEN s.keys ELSE RegistryKeys

\* target_keys = sites or list(self._REGISTRY.keys())
TargetKeys(s) ==
    IF s.given /\ s.keys # <<>> THEN s.keys ELSE RegistryKeys

\* Faulty variant: only the first requested key is validated.
InvalidFirstOnly(target_keys) ==
    {target_keys[i] : i \in 1..Len(target_keys) \cap {1}} \ Registry

\* invalid = set(target_keys) - set(self._REGISTRY)
Invalid(target_keys) ==
    {target_keys[i] : i \in 1..Len(target_keys)} \ Registry

-----------------------------------------------------------------------------
(* The environment: what a ready page can yield, and the adapters' URLs *)

Keyword == "kw"

\* Faulty variant: the naver offset counts from 0.
build_urlZeroBased(key, keyword, p) ==
    IF key = "naver"
    THEN [site |-> key, kw |-> keyword, start |-> (p - 1) * 10]
    ELSE [site |-> key, kw |-> keyword, start |-> p]

\* NaverCrawler.build_url, DaumCrawler.build_url, HankyungCrawler.build_url
build_url(key, keyword, p) ==
    IF key = "naver"
    THEN [site |-> key, kw |-> keyword, start |-> (p - 1) * 10 + 1]
    ELSE [site |-> key, kw |-> keyword, start |-> p]

\* The web as the crawl finds it.  Every record tells its site (source) and
\* its page (pub_time).  Own: an article under a link of its own.  Shared: an
\* article every site lists under the same link, which daum gives with a
\* trailing blank.  Unlinked: an article without a link, under the same title
\* on every site.
PageName == <<"p1", "p2", "p3", "p4", "p5", "p6">>

Own(key, p) == NewsItem(<<"o">>, "press", PageName[p], <<key, PageName[p]>>, key)

Shared(key, p) ==
    NewsItem(<<"s">>, "press", PageName[p],
             IF key = "daum" THEN <<"u", " ">> ELSE <<"u">>, key)

Unlinked(key, p) == NewsItem(<<"t">>, "unknown", PageName[p], <<>>, key)

\* What parse_page returns on page p of the site, once the page is ready.
PageBatch(key, p) ==
    CASE p % 3 = 1 -> <<Own(key, p), Shared(key, p)>>
      [] p % 3 = 2 -> <<Unlinked(key, p), Own(key, p)>>
      [] OTHER     -> <<>>

-----------------------------------------------------------------------------
(* History of the calls of BaseCrawler.crawl *)

\* How many calls of MultiSiteCrawler.crawl have begun a site run.
CallsMade == IF runs = <<>> THEN 0 ELSE runs[Len(runs)].call

NewRun(i, key) ==
    [idx |-> i, key |-> key, navs |-> <<>>, outcomes |-> <<>>,
     paces |-> <<>>, end |-> "running", results |-> <<>>,
     call |-> IF i = 1 THEN CallsMade + 1 ELSE CallsMade]

Outcome(p, kind, batch, acc) ==
    [page |-> p, kind |-> kind, batch |-> batch, acc |-> acc]

CurRun == runs[Len(runs)]

\* How self._driver.get(url) fails.
NavFailures == {"nav_failed", "nav_timed_out"}

LogNav(url) ==
    [runs EXCEPT ![Len(runs)].navs = Append(@, [page |-> page, url |-> url])]

LogOutcome(r, o) ==
    [r EXCEPT ![Len(r)].outcomes = Append(@, o)]

LogEnd(end) == [runs EXCEPT ![Len(runs)].end = end]

\* The pacing sleep that follows the handling of the current page.
LogPace == [runs EXCEPT ![Len(runs)].paces = Append(@, page)]

-----------------------------------------------------------------------------
(* MultiSiteCrawler.__init__ *)

Construct ==
    /\ mpc = "new"
    /\ LET target_keys == TargetKeys(sites)
           invalid     == Invalid(target_keys)
       IN  IF invalid # {}
           THEN /\ mpc' = "config_error"
                /\ errorKeys' = invalid
                /\ UNCHANGED crawlers
           ELSE /\ mpc' = "constructed"
                /\ crawlers' = [i \in 1..Len(target_keys) |->
                                    [key |-> target_keys[i], driver |-> 0]]
                /\ UNCHANGED errorKeys
    /\ UNCHANGED <<sites, pages, ci, all_items, returned, pc, page, results,
                   sessions, runs>>
    /\ UNCHANGED <<faults, dd_pc, dd_in, dd_out, dd_out2, parseVars, sentVars>>

-----------------------------------------------------------------------------
(* MultiSiteCrawler.crawl *)

StartCrawl ==
    /\ mpc = "constructed"
    /\ mpc' = "crawling"
    /\ all_items' = <<>>
    /\ ci' = 1
    /\ UNCHANGED <<sites, pages, errorKeys, crawlers, returned, pc, page,
                   results, sessions, runs>>
    /\ UNCHANGED <<faults, dd_pc, dd_in, dd_out, dd_out2, parseVars, sentVars>>

\* Faulty variant: a call for no page returns at once, without a session.
SiteStartSkipsEmpty ==
    /\ mpc = "crawling"
    /\ pc = "idle"
    /\ ci <= Len(crawlers)
    /\ pc' = IF pages <= 0 THEN "return" ELSE "build_driver"
    /\ results' = <<>>
    /\ runs' = Append(runs, [NewRun(ci, crawlers[ci].key) EXCEPT
                                !.end = IF pages <= 0 THEN "completed" ELSE "running"])
    /\ UNCHANGED <<sites, pages, mpc, errorKeys, crawlers, ci, all_items,
                   returned, page, sessions>>
    /\ UNCHANGED <<faults, dd_pc, dd_in, dd_out, dd_out2, parseVars, sentVars>>

\* MultiSiteCrawler.crawl is called a second time on the same object, after
\* the first call returned or raised.
Recrawl ==
    /\ mpc \in {"done", "raised"}
    /\ CallsMade = 1
    /\ mpc' = "crawling"
    /\ all_items' = <<>>
    /\ ci' = 1
    /\ pc' = "idle"
    /\ UNCHANGED <<sites, pages, errorKeys, crawlers, returned, page,
                   results, sessions, runs>>
    /\ UNCHANGED <<faults, dd_pc, dd_in, dd_out, dd_out2, parseVars, sentVars>>

\* items = crawler.crawl(keyword=keyword, pages=pages_per_site): the call
SiteStart ==
    /\ mpc = "crawling"
    /\ pc = "idle"
    /\ ci <= Len(crawlers)
    /\ pc' = "build_driver"
    /\ results' = <<>>
    /\ runs' = Append(runs, NewRun(ci, crawlers[ci].key))
    /\ UNCHANGED <<sites, pages, mpc, errorKeys, crawlers, ci, all_items,
                   returned, page, sessions>>
    /\ UNCHANGED <<faults, dd_pc, dd_in, dd_out, dd_out2, parseVars, sentVars>>

\* Faulty variant: the items of a site are put in front of all_items.
SiteReturnPrepends ==
    /\ mpc = "crawling"
    /\ pc = "return"
    /\ pc' = "idle"
    /\ all_items' = results \o all_items
    /\ ci' = ci + 1
    /\ runs' = [runs EXCEPT ![Len(runs)].results = results]
    /\ UNCHANGED <<sites, pages, mpc, errorKeys, crawlers, returned, page,
                   results, sessions>>
    /\ UNCHANGED <<faults, dd_pc, dd_in, dd_out, dd_out2, parseVars, sentVars>>

\* all_items.extend(items), and the loop moves to the next crawler
SiteReturn ==
    /\ mpc = "crawling"
    /\ pc = "return"
    /\ pc' = "idle"
    /\ all_items' = all_items \o results
    /\ ci' = ci + 1
    /\ runs' = [runs EXCEPT ![Len(runs)].results = results]
    /\ UNCHANGED <<sites, pages, mpc, errorKeys, crawlers, returned, page,
                   results, sessions>>
    /\ UNCHANGED <<faults, dd_pc, dd_in, dd_out, dd_out2, parseVars, sentVars>>

\* all_items = self._deduplicate(all_items); return all_items
Finish ==
    /\ mpc = "crawling"
    /\ pc = "idle"
    /\ ci > Len(crawlers)
    /\ mpc' = "done"
    /\ returned' = Deduplicate(all_items)
    /\ UNCHANGED <<sites, pages, errorKeys, crawlers, ci, all_items, pc, page,
                   results, sessions, runs>>
    /\ UNCHANGED <<faults, dd_pc, dd_in, dd_out, dd_out2, parseVars, sentVars>>

-----------------------------------------------------------------------------
(* build_driver, called by BaseCrawler.crawl before its try block *)

\* webdriver.Chrome and execute_script both return
BuildDriverOk ==
    /\ pc = "build_driver"
    /\ sessions' = Append(sessions, [owner |-> Len(runs), quits |-> 0])
    /\ crawlers' = [crawlers EXCEPT ![ci].driver = Len(sessions) + 1]
    /\ page' = 1
    /\ pc' = "loop"
    /\ UNCHANGED <<sites, pages, mpc, errorKeys, ci, all_items, returned,
                   results, runs>>
    /\ UNCHANGED <<faults, dd_pc, dd_in, dd_out, dd_out2, parseVars, sentVars>>

\* webdriver.Chrome raises: no session exists, the exception leaves both crawls
BuildDriverChromeFails ==
    /\ pc = "build_driver"
    /\ faults < MaxFaults
    /\ faults' = faults + 1
    /\ pc' = "idle"
    /\ mpc' = "raised"
    /\ runs' = LogEnd("raised")
    /\ UNCHANGED <<sites, pages, errorKeys, crawlers, ci, all_items, returned,
                   page, results, sessions>>
    /\ UNCHANGED <<ddVars, parseVars, sentVars>>

\* webdriver.Chrome returns, execute_script raises: the session exists, the
\* exception leaves build_driver before self._driver is assigned
BuildDriverScriptFails ==
    /\ pc = "build_driver"
    /\ faults < MaxFaults
    /\ faults' = faults + 1
    /\ sessions' = Append(sessions, [owner |-> Len(runs), quits |-> 0])
    /\ pc' = "idle"
    /\ mpc' = "raised"
    /\ runs' = LogEnd("raised")
    /\ UNCHANGED <<sites, pages, errorKeys, crawlers, ci, all_items, returned,
                   page, results>>
    /\ UNCHANGED <<ddVars, parseVars, sentVars>>

-----------------------------------------------------------------------------
(* BaseCrawler.crawl: the page loop *)

\* range(1, pages + 1) is exhausted
LoopDone ==
    /\ pc = "loop"
    /\ page > pages
    /\ pc' = "finally"
    /\ runs' = LogEnd("completed")
    /\ UNCHANGED <<sites, pages, mpc, errorKeys, crawlers, ci, all_items,
                   returned, page, results, sessions>>
    /\ UNCHANGED <<faults, dd_pc, dd_in, dd_out, dd_out2, parseVars, sentVars>>

\* url = self.build_url(keyword, page); self._driver.get(url) returns
Navigate ==
    /\ pc = "loop"
    /\ page <= pages
    /\ pc' = "wait"
    /\ runs' = LogNav(build_url(crawlers[ci].key, Keyword, page))
    /\ UNCHANGED <<sites, pages, mpc, errorKeys, crawlers, ci, all_items,
                   returned, page, results, sessions>>
    /\ UNCHANGED <<faults, dd_pc, dd_in, dd_out, dd_out2, parseVars, sentVars>>

\* Faulty variant: a failed navigation skips the page like a timeout does.
NavigateRaisesSkipsPage ==
    /\ pc = "loop"
    /\ faults < MaxFaults
    /\ faults' = faults + 1
    /\ page <= pages
    /\ pc' = "loop"
    /\ page' = page + 1
    /\ runs' = LogOutcome(LogNav(build_url(crawlers[ci].key, Keyword, page)),
                          Outcome(page, "nav_failed", <<>>, results))
    /\ UNCHANGED <<sites, pages, mpc, errorKeys, crawlers, ci, all_items,
                   returned, results, sessions>>
    /\ UNCHANGED <<ddVars, parseVars, sentVars>>

\* url = self.build_url(keyword, page) raises
BuildUrlRaises ==
    /\ pc = "loop"
    /\ faults < MaxFaults
    /\ faults' = faults + 1
    /\ page <= pages
    /\ pc' = "except"
    /\ runs' = LogOutcome(runs, Outcome(page, "url_failed", <<>>, results))
    /\ UNCHANGED <<sites, pages, mpc, errorKeys, crawlers, ci, all_items,
                   returned, page, results, sessions>>
    /\ UNCHANGED <<ddVars, parseVars, sentVars>>

\* Faulty variant: a TimeoutException of driver.get skips the page as one of
\* the readiness wait does.
NavigateTimeoutSkipsPage ==
    /\ pc = "loop"
    /\ faults < MaxFaults
    /\ faults' = faults + 1
    /\ page <= pages
    /\ \E kind \in NavFailures :
          /\ runs' = LogOutcome(LogNav(build_url(crawlers[ci].key, Keyword, page)),
                                Outcome(page, kind, <<>>, results))
          /\ IF kind = "nav_timed_out"
             THEN pc' = "loop" /\ page' = page + 1
             ELSE pc' = "except" /\ page' = page
    /\ UNCHANGED <<sites, pages, mpc, errorKeys, crawlers, ci, all_items,
                   returned, results, sessions>>
    /\ UNCHANGED <<ddVars, parseVars, sentVars>>

\* self._driver.get(url) raises: a TimeoutException (nav_timed_out) or
\* another exception (nav_failed)
NavigateRaises ==
    /\ pc = "loop"
    /\ faults < MaxFaults
    /\ faults' = faults + 1
    /\ page <= pages
    /\ pc' = "except"
    /\ \E kind \in NavFailures :
          runs' = LogOutcome(LogNav(build_url(crawlers[ci].key, Keyword, page)),
                            Outcome(page, kind, <<>>, results))
    /\ UNCHANGED <<sites, pages, mpc, errorKeys, crawlers, ci, all_items,
                   returned, page, results, sessions>>
    /\ UNCHANGED <<ddVars, parseVars, sentVars>>

\* wait.until(...) returns
WaitReady ==
    /\ pc = "wait"
    /\ pc' = "parse"
    /\ UNCHANGED <<sites, pages, mpc, errorKeys, crawlers, ci, all_items,
                   returned, page, results, sessions, runs>>
    /\ UNCHANGED <<faults, dd_pc, dd_in, dd_out, dd_out2, parseVars, sentVars>>

\* Faulty variant: a page that timed out is tried again.
WaitTimeoutRetries ==
    /\ pc = "wait"
    /\ faults < MaxFaults
    /\ faults' = faults + 1
    /\ pc' = "loop"
    /\ runs' = LogOutcome(runs, Outcome(page, "timed_out", <<>>, results))
    /\ UNCHANGED <<sites, pages, mpc, errorKeys, crawlers, ci, all_items,
                   returned, page, results, sessions>>
    /\ UNCHANGED <<ddVars, parseVars, sentVars>>

\* Faulty variant: a timeout ends the run like any other exception.
WaitTimeoutAborts ==
    /\ pc = "wait"
    /\ faults < MaxFaults
    /\ faults' = faults + 1
    /\ pc' = "except"
    /\ runs' = LogOutcome(runs, Outcome(page, "timed_out", <<>>, results))
    /\ UNCHANGED <<sites, pages, mpc, errorKeys, crawlers, ci, all_items,
                   returned, page, results, sessions>>
    /\ UNCHANGED <<ddVars, parseVars, sentVars>>

\* wait.until(...) raises TimeoutException: continue
WaitTimeout ==
    /\ pc = "wait"
    /\ faults < MaxFaults
    /\ faults' = faults + 1
    /\ pc' = "loop"
    /\ page' = page + 1
    /\ runs' = LogOutcome(runs, Outcome(page, "timed_out", <<>>, results))
    /\ UNCHANGED <<sites, pages, mpc, errorKeys, crawlers, ci, all_items,
                   returned, results, sessions>>
    /\ UNCHANGED <<ddVars, parseVars, sentVars>>

\* wait.until(...) raises anything else
WaitRaises ==
    /\ pc = "wait"
    /\ faults < MaxFaults
    /\ faults' = faults + 1
    /\ pc' = "except"
    /\ runs' = LogOutcome(runs, Outcome(page, "wait_failed", <<>>, results))
    /\ UNCHANGED <<sites, pages, mpc, errorKeys, crawlers, ci, all_items,
                   returned, page, results, sessions>>
    /\ UNCHANGED <<ddVars, parseVars, sentVars>>

\* Faulty variant: results = items instead of results.extend(items).
ParseOkReplaces ==
    /\ pc = "parse"
    /\ LET items == PageBatch(crawlers[ci].key, page)
       IN  /\ results' = items
           /\ runs' = LogOutcome(runs, Outcome(page, "extracted", items, items))
    /\ pc' = "pace"
    /\ UNCHANGED <<sites, pages, mpc, errorKeys, crawlers, ci, all_items,
                   returned, page, sessions>>
    /\ UNCHANGED <<faults, dd_pc, dd_in, dd_out, dd_out2, parseVars, sentVars>>

\* items = self.parse_page(self._driver); results.extend(items)
ParseOk ==
    /\ pc = "parse"
    /\ LET items == PageBatch(crawlers[ci].key, page)
       IN  /\ results' = results \o items
           /\ runs' = LogOutcome(runs, Outcome(page, "extracted", items,
                                               results \o items))
    /\ pc' = "pace"
    /\ UNCHANGED <<sites, pages, mpc, errorKeys, crawlers, ci, all_items,
                   returned, page, sessions>>
    /\ UNCHANGED <<faults, dd_pc, dd_in, dd_out, dd_out2, parseVars, sentVars>>

\* Faulty variant: the exception of parse_page reaches the outer handler.
ParseRaisesPropagates ==
    /\ pc = "parse"
    /\ faults < MaxFaults
    /\ faults' = faults + 1
    /\ pc' = "except"
    /\ runs' = LogOutcome(runs, Outcome(page, "extract_failed", <<>>, results))
    /\ UNCHANGED <<sites, pages, mpc, errorKeys, crawlers, ci, all_items,
                   returned, page, results, sessions>>
    /\ UNCHANGED <<ddVars, parseVars, sentVars>>

\* self.parse_page raises: items = []; results.extend(items)
ParseRaises ==
    /\ pc = "parse"
    /\ faults < MaxFaults
    /\ faults' = faults + 1
    /\ results' = results \o <<>>
    /\ runs' = LogOutcome(runs, Outcome(page, "extract_failed", <<>>,
                                        results \o <<>>))
    /\ pc' = "pace"
    /\ UNCHANGED <<sites, pages, mpc, errorKeys, crawlers, ci, all_items,
                   returned, page, sessions>>
    /\ UNCHANGED <<ddVars, parseVars, sentVars>>

\* time.sleep(random.uniform(*self.delay_range)), then the next iteration
Pace ==
    /\ pc = "pace"
    /\ pc' = "loop"
    /\ page' = page + 1
    /\ runs' = LogPace
    /\ UNCHANGED <<sites, pages, mpc, errorKeys, crawlers, ci, all_items,
                   returned, results, sessions>>
    /\ UNCHANGED <<faults, dd_pc, dd_in, dd_out, dd_out2, parseVars, sentVars>>

\* except Exception as e: print(...)
Except ==
    /\ pc = "except"
    /\ pc' = "finally"
    /\ runs' = LogEnd("aborted")
    /\ UNCHANGED <<sites, pages, mpc, errorKeys, crawlers, ci, all_items,
                   returned, page, results, sessions>>
    /\ UNCHANGED <<faults, dd_pc, dd_in, dd_out, dd_out2, parseVars, sentVars>>

\* Faulty variant: the session is dropped without being quit.
FinallyForgetsQuit ==
    /\ pc = "finally"
    /\ pc' = "return"
    /\ crawlers' = [crawlers EXCEPT ![ci].driver = 0]
    /\ UNCHANGED <<sites, pages, mpc, errorKeys, ci, all_items, returned,
                   page, results, runs, sessions>>
    /\ UNCHANGED <<faults, dd_pc, dd_in, dd_out, dd_out2, parseVars, sentVars>>

\* finally: if self._driver: self._driver.quit(); self._driver = None
\* Faulty variant: quit() never returns.
FinallyNeverReturns ==
    /\ pc = "finally"
    /\ UNCHANGED vars

\* Faulty variant: the session is quit but self._driver keeps it.
FinallyKeepsDriver ==
    /\ pc = "finally"
    /\ pc' = "return"
    /\ LET d == crawlers[ci].driver
       IN  IF d # 0
           THEN sessions' = [sessions EXCEPT ![d].quits = @ + 1]
           ELSE UNCHANGED sessions
    /\ UNCHANGED <<sites, pages, mpc, errorKeys, crawlers, ci, all_items,
                   returned, page, results, runs>>
    /\ UNCHANGED <<faults, dd_pc, dd_in, dd_out, dd_out2, parseVars, sentVars>>

Finally ==
    /\ pc = "finally"
    /\ pc' = "return"
    /\ LET d == crawlers[ci].driver
       IN  IF d # 0
           THEN /\ sessions' = [sessions EXCEPT ![d].quits = @ + 1]
                /\ crawlers' = [crawlers EXCEPT ![ci].driver = 0]
           ELSE UNCHANGED <<sessions, crawlers>>
    /\ UNCHANGED <<sites, pages, mpc, errorKeys, ci, all_items, returned,
                   page, results, runs>>
    /\ UNCHANGED <<faults, dd_pc, dd_in, dd_out, dd_out2, parseVars, sentVars>>

-----------------------------------------------------------------------------
(* The specification of the crawl *)

\* parse_page is not run on its own
ParseOff ==
    /\ pp_pc = "off"
    /\ pp_site = "naver"
    /\ pp_n = 0
    /\ pp_items = <<>>
    /\ pp_log = <<>>

\* _score_title is not run on its own
SentimentOff ==
    /\ st_pc = "off"
    /\ st_title = [str |-> TRUE, text |-> <<>>]
    /\ st_result = [score |-> 0, sentiment |-> "neutral",
                    matched_pos |-> <<>>, matched_neg |-> <<>>]

Init ==
    /\ sites \in Requests
    /\ pages \in PageCounts
    /\ Len(TargetKeys(sites)) * pages <= MaxVisits
    /\ mpc = "new"
    /\ errorKeys = {}
    /\ crawlers = <<>>
    /\ ci = 0
    /\ all_items = <<>>
    /\ returned = <<>>
    /\ pc = "idle"
    /\ page = 0
    /\ results = <<>>
    /\ sessions = <<>>
    /\ runs = <<>>
    /\ faults = 0
    /\ dd_pc = "off"
    /\ dd_in = <<>>
    /\ dd_out = <<>>
    /\ dd_out2 = <<>>
    /\ ParseOff
    /\ SentimentOff

Next ==
    \/ Construct
    \/ StartCrawl
    \/ SiteStart
    \/ BuildDriverOk
    \/ BuildDriverChromeFails
    \/ BuildDriverScriptFails
    \/ LoopDone
    \/ Navigate
    \/ BuildUrlRaises
    \/ NavigateRaises
    \/ WaitReady
    \/ WaitTimeout
    \/ WaitRaises
    \/ ParseOk
    \/ ParseRaises
    \/ Pace
    \/ Except
    \/ Finally
    \/ SiteReturn
    \/ Finish

Spec == Init /\ [][Next]_vars

\* The crawl called a first and a second time on the same MultiSiteCrawler.
InitAgain ==
    /\ Init
    /\ Len(TargetKeys(sites)) * pages <= MaxRevisits

NextAgain ==
    \/ Next
    \/ Recrawl

SpecAgain == InitAgain /\ [][NextAgain]_vars

-----------------------------------------------------------------------------
(* The specification of _deduplicate alone, over every short list *)

DedupUrls == {<<>>, <<" ">>, <<"a">>, <<" ", "a">>, <<"b">>}

DedupTitles == {<<"a">>, <<"a", " ">>, <<"t">>}

DedupItems ==
    {NewsItem(t, "press", "1h", u, "naver") : t \in DedupTitles, u \in DedupUrls}

DedupLists == UNION {[1..n -> DedupItems] : n \in 0..MaxItems}

InitDedup ==
    /\ sites = None
    /\ pages = 0
    /\ mpc = "off"
    /\ errorKeys = {}
    /\ crawlers = <<>>
    /\ ci = 0
    /\ all_items = <<>>
    /\ returned = <<>>
    /\ pc = "idle"
    /\ page = 0
    /\ results = <<>>
    /\ sessions = <<>>
    /\ runs = <<>>
    /\ faults = 0
    /\ dd_pc = "input"
    /\ dd_in \in DedupLists
    /\ dd_out = <<>>
    /\ dd_out2 = <<>>
    /\ ParseOff
    /\ SentimentOff

DedupOnce ==
    /\ dd_pc = "input"
    /\ dd_pc' = "once"
    /\ dd_out' = Deduplicate(dd_in)
    /\ UNCHANGED <<dd_in, dd_out2>>
    /\ UNCHANGED <<crawlVars, parseVars, sentVars>>

DedupTwice ==
    /\ dd_pc = "once"
    /\ dd_pc' = "twice"
    /\ dd_out2' = Deduplicate(dd_out)
    /\ UNCHANGED <<dd_in, dd_out>>
    /\ UNCHANGED <<crawlVars, parseVars, sentVars>>

NextDedup ==
    \/ DedupOnce
    \/ DedupTwice

SpecDedup == InitDedup /\ [][NextDedup]_vars

-----------------------------------------------------------------------------
(* Reading the history *)

UpTo(n) == [i \in 1..n |-> i]

NavPages(r) == [i \in 1..Len(r.navs) |-> r.navs[i].page]

FatalKinds == {"url_failed", "nav_failed", "nav_timed_out", "wait_failed"}

PagesOfKind(r, kinds) ==
    {r.outcomes[j].page : j \in {x \in 1..Len(r.outcomes) : r.outcomes[x].kind \in kinds}}

FatalAt(r) == PagesOfKind(r, FatalKinds)

\* How many turns of the page loop the run has begun: the pages navigated,
\* and the page whose build_url raised.
PagesBegun(r) == Len(r.navs) + Cardinality(PagesOfKind(r, {"url_failed"}))

\* The records of the ready pages p..k-1 of the run's site, in page order.
RECURSIVE Collected(_, _, _)
Collected(r, p, k) ==
    IF p >= k THEN <<>>
    ELSE (IF p \in PagesOfKind(r, {"extracted"}) THEN PageBatch(r.key, p) ELSE <<>>)
         \o Collected(r, p + 1, k)

\* The accumulated list before the j-th handled page of the run.
AccBefore(r, j) == IF j = 1 THEN <<>> ELSE r.outcomes[j - 1].acc

\* Control has left the i-th call of BaseCrawler.crawl.
Left(i) == i < Len(runs) \/ pc = "idle"

\* The i-th call is past its page loop.
PastLoop(i) == Left(i) \/ pc \in {"except", "finally", "return"}

\* What the i-th call has in results once it is past its page loop.
ResultsOf(i) == IF Left(i) THEN runs[i].results ELSE results

-----------------------------------------------------------------------------
(* C1 *)

\* C1: when navigation or the wait fails fatally on page k of a site's run,
\* the pages navigated in that run are exactly 1..k (1..k-1 when it is
\* build_url that failed, before the navigation), the run ends aborted and
\* returns exactly the records of the ready pages before k, the failure does
\* not leave MultiSiteCrawler.crawl, and every later site that completes its
\* run has navigated all of its pages; a finished crawl has run every site.
C1_AbortKeepsEarlierPages ==
    \A i \in 1..Len(runs) :
        LET r == runs[i]
        IN  FatalAt(r) # {} =>
                LET k == CHOOSE p \in FatalAt(r) : TRUE
                IN  /\ FatalAt(r) = {k}
                    /\ NavPages(r) =
                          UpTo(IF PagesOfKind(r, {"url_failed"}) = {} THEN k ELSE k - 1)
                    /\ r.outcomes[Len(r.outcomes)].kind \in FatalKinds
                    /\ PastLoop(i)
                    /\ ResultsOf(i) = Collected(r, 1, k)
                    /\ r.end \in {"running", "aborted"}
                    /\ r.end = "running" => pc = "except"
                    /\ mpc = "raised" => i < Len(runs)
                    /\ mpc = "done" => Len(runs) = Len(crawlers)
                    /\ \A j \in (i + 1)..Len(runs) :
                          runs[j].end = "completed" =>
                              NavPages(runs[j]) = UpTo(pages)

\* A finished crawl of two sites over three pages whose first site failed
\* fatally on page 2 after collecting page 1, and whose second site went
\* through all three pages.
C1_Witness ==
    /\ mpc = "done"
    /\ pages = 3
    /\ Len(runs) = 2
    /\ FatalAt(runs[1]) = {2}
    /\ runs[1].results = PageBatch(runs[1].key, 1)
    /\ runs[1].results # <<>>
    /\ runs[2].end = "completed"
    /\ NavPages(runs[2]) = <<1, 2, 3>>

-----------------------------------------------------------------------------
(* C2 *)

\* C2: a page whose readiness wait timed out adds nothing to results and is
\* followed by the turn of the next page; a run that met no fatal failure ends only when
\* every page 1..pages has been navigated, and its results are then exactly
\* the records of its ready pages in page order.
C2_TimeoutSkipsPageOnly ==
    \A i \in 1..Len(runs) :
        LET r == runs[i]
        IN  /\ \A j \in 1..Len(r.outcomes) :
                  r.outcomes[j].kind = "timed_out" =>
                      /\ r.outcomes[j].acc = AccBefore(r, j)
                      /\ (r.outcomes[j].page < pages /\ PastLoop(i)) =>
                             PagesBegun(r) > r.outcomes[j].page
            /\ (FatalAt(r) = {} /\ r.end \notin {"running", "raised"}) =>
                  /\ r.end = "completed"
                  /\ NavPages(r) = UpTo(pages)
                  /\ ResultsOf(i) = Collected(r, 1, pages + 1)

\* A three-page run in which page 2 timed out and pages 1 and 3 gave their
\* records.
C2_Witness ==
    /\ pages = 3
    /\ Len(runs) >= 1
    /\ Left(1)
    /\ runs[1].end = "completed"
    /\ PagesOfKind(runs[1], {"timed_out"}) = {2}
    /\ PagesOfKind(runs[1], {"extracted"}) = {1, 3}
    /\ runs[1].results = PageBatch(runs[1].key, 1) \o PageBatch(runs[1].key, 3)
    /\ Len(runs[1].results) >= 2

-----------------------------------------------------------------------------
(* C3 *)

\* C3: a parse_page that raises leaves results as they were after the page
\* before, the exception never ends the run (an aborted run's last page
\* outcome is a fatal one, and no crawl is left by it), and the turn of the
\* page after is begun.
C3_ExtractionFailureIsLocal ==
    \A i \in 1..Len(runs) :
        LET r == runs[i]
            n == Len(r.outcomes)
        IN  /\ \A j \in 1..n :
                  r.outcomes[j].kind = "extract_failed" =>
                      /\ r.outcomes[j].acc = AccBefore(r, j)
                      /\ (j = n /\ i = Len(runs)) =>
                             pc # "except" /\ mpc # "raised"
                      /\ (r.outcomes[j].page < pages /\ PastLoop(i)) =>
                             PagesBegun(r) > r.outcomes[j].page
            /\ r.end = "aborted" => r.outcomes[n].kind \in FatalKinds
            /\ r.end = "raised" => n = 0

\* A finished three-page run whose page 2 failed to parse and whose pages 1
\* and 3 gave their records.
C3_Witness ==
    /\ pages = 3
    /\ Len(runs) >= 1
    /\ Left(1)
    /\ runs[1].end = "completed"
    /\ PagesOfKind(runs[1], {"extract_failed"}) = {2}
    /\ NavPages(runs[1]) = <<1, 2, 3>>
    /\ runs[1].results = PageBatch(runs[1].key, 1) \o PageBatch(runs[1].key, 3)
    /\ Len(runs[1].results) >= 2

-----------------------------------------------------------------------------
(* C4 *)

\* C4: whenever control is outside BaseCrawler.crawl, every browser session
\* that was opened has been quit exactly once.
C4_SessionReleasedOnEveryExit ==
    pc = "idle" => \A s \in 1..Len(sessions) : sessions[s].quits = 1

-----------------------------------------------------------------------------
(* C5 *)

\* C5: no failure of a browser session, a page or a parser makes
\* MultiSiteCrawler.crawl raise; the crawl ends by returning, with every
\* requested site run.
C5_OnlyConfigErrorIsFatal ==
    /\ mpc # "raised"
    /\ mpc = "done" => Len(runs) = Len(crawlers)

-----------------------------------------------------------------------------
(* C6 *)

\* The keys of the request as the caller wrote them.
RequestedKeys == {sites.keys[i] : i \in 1..Len(sites.keys)}

\* C6: once __init__ has run on a request with a key outside naver, daum,
\* hankyung, it has raised the configuration error, the error names exactly
\* the unknown keys of the request, and no browser session was opened, no
\* site run started and no URL navigated.
C6_UnknownKeyFailsFast ==
    LET unknown == RequestedKeys \ {"naver", "daum", "hankyung"}
    IN  /\ (mpc # "new" /\ unknown # {}) =>
              /\ mpc = "config_error"
              /\ errorKeys = unknown
              /\ sessions = <<>>
              /\ runs = <<>>
              /\ crawlers = <<>>
        /\ mpc = "config_error" => unknown # {}

\* The request cnn, daum, bbc was refused, and both unknown keys are named.
C6_Witness ==
    /\ mpc = "config_error"
    /\ "daum" \in RequestedKeys
    /\ errorKeys = {"bbc", "cnn"}

-----------------------------------------------------------------------------
(* C7 *)

\* C7: with no site list, or an empty one, __init__ builds the crawlers of
\* naver, daum, hankyung in this order, and a finished crawl has run each of
\* them, in this order.
C7_DefaultsToWholeRegistry ==
    (sites.keys = <<>> /\ mpc # "new") =>
        /\ mpc # "config_error"
        /\ [i \in 1..Len(crawlers) |-> crawlers[i].key] = <<"naver", "daum", "hankyung">>
        /\ Len(runs) <= 3
        /\ \A i \in 1..Len(runs) : runs[i].key = <<"naver", "daum", "hankyung">>[i]
        /\ mpc = "done" => Len(runs) = 3

\* A finished crawl that was asked for the empty list and navigated on all
\* three sites.
C7_Witness ==
    /\ sites.given
    /\ sites.keys = <<>>
    /\ mpc = "done"
    /\ Len(runs) = 3
    /\ \A i \in 1..3 : runs[i].navs # <<>>

-----------------------------------------------------------------------------
(* C8 *)

\* The positions of a list that hold the first occurrence of their key.
FirstOccurrences(items) ==
    {i \in 1..Len(items) :
        \A j \in 1..(i - 1) : DedupKey(items[j]) # DedupKey(items[i])}

\* The elements of a list at the positions from..Len(items) that are in keep,
\* in the order of the list.
RECURSIVE Restrict(_, _, _)
Restrict(items, keep, from) ==
    IF from > Len(items) THEN <<>>
    ELSE (IF from \in keep THEN <<items[from]>> ELSE <<>>)
         \o Restrict(items, keep, from + 1)

KeysOf(items) == {DedupKey(items[i]) : i \in 1..Len(items)}

\* C8: the list _deduplicate returns is its input restricted to the first
\* occurrence of each dedup key: no two of its records share a key, every key
\* of the input is in it, and the records keep the order of the input.
C8_DedupFirstSeenWins ==
    dd_pc \in {"once", "twice"} =>
        /\ dd_out = Restrict(dd_in, FirstOccurrences(dd_in), 1)
        /\ \A i, j \in 1..Len(dd_out) :
              i # j => DedupKey(dd_out[i]) # DedupKey(dd_out[j])
        /\ KeysOf(dd_out) = KeysOf(dd_in)

\* A list of three records whose first and third differ and share a key:
\* the first two are returned.
C8_Witness ==
    /\ dd_pc = "once"
    /\ Len(dd_in) = 3
    /\ dd_in[1] # dd_in[3]
    /\ DedupKey(dd_in[1]) = DedupKey(dd_in[3])
    /\ DedupKey(dd_in[1]) # DedupKey(dd_in[2])
    /\ dd_out = <<dd_in[1], dd_in[2]>>

-----------------------------------------------------------------------------
(* C9 *)

\* Empty or made of whitespace only.
Blank(s) == \A i \in 1..Len(s) : s[i] \in {" "}

\* The string without its leading and trailing blanks, read off the
\* positions of its first and last non-blank character.
Trimmed(s) ==
    LET solid == {i \in 1..Len(s) : s[i] # " "}
    IN  IF solid = {} THEN <<>>
        ELSE SubSeq(s, CHOOSE i \in solid : \A k \in solid : i <= k,
                       CHOOSE i \in solid : \A k \in solid : i >= k)

\* C9: of two records given to _deduplicate the second is dropped as a
\* duplicate, when both urls are blank, exactly if the trimmed titles are
\* equal, and when both urls are not blank, exactly if the trimmed urls are
\* equal, whatever the titles.
C9_DedupKeyIsUrlThenTitle ==
    (dd_pc \in {"once", "twice"} /\ Len(dd_in) = 2) =>
        LET a == dd_in[1]
            b == dd_in[2]
            dropped == dd_out = <<a>>
            kept == dd_out = <<a, b>>
        IN  /\ dropped \/ kept
            /\ (Blank(a.url) /\ Blank(b.url)) =>
                  (dropped <=> Trimmed(a.title) = Trimmed(b.title))
            /\ (~Blank(a.url) /\ ~Blank(b.url)) =>
                  (dropped <=> Trimmed(a.url) = Trimmed(b.url))

\* Two records, one with an empty url and one with a url of one blank, whose
\* titles differ only by a trailing blank: the second is dropped.
C9_Witness ==
    /\ dd_pc = "once"
    /\ Len(dd_in) = 2
    /\ dd_in[1].url = <<>>
    /\ dd_in[2].url = <<" ">>
    /\ dd_in[1].title # dd_in[2].title
    /\ dd_out = <<dd_in[1]>>

-----------------------------------------------------------------------------
(* C10 *)

\* C10: _deduplicate applied to its own result returns that result, and
\* _deduplicate applied to a list whose keys are pairwise distinct returns
\* the list.
C10_DedupIdempotent ==
    /\ dd_pc = "twice" => dd_out2 = dd_out
    /\ (dd_pc \in {"once", "twice"}
          /\ \A i, j \in 1..Len(dd_in) :
                i # j => DedupKey(dd_in[i]) # DedupKey(dd_in[j])) =>
            dd_out = dd_in

\* A list that lost a record to the first pass and came back whole, two
\* records long, from the second.
C10_Witness ==
    /\ dd_pc = "twice"
    /\ Len(dd_out) < Len(dd_in)
    /\ Len(dd_out2) = 2
    /\ dd_out2 = dd_out

-----------------------------------------------------------------------------
(* C11 *)

\* C11: in every run, each page after the first is navigated only after the
\* pacing sleep that follows the page before it, whatever the outcome of
\* that page was.
C11_PacingAfterEveryPage ==
    \A i \in 1..Len(runs) :
        \A n \in 1..Len(runs[i].navs) :
            runs[i].navs[n].page > 1 =>
                \E k \in 1..Len(runs[i].paces) :
                    runs[i].paces[k] = runs[i].navs[n].page - 1

-----------------------------------------------------------------------------
(* C12 *)

\* The browser sessions that are open: opened and not quit.
OpenSessions == {s \in 1..Len(sessions) : sessions[s].quits = 0}

\* C12: at most one browser session is open at any time, it was opened by
\* the run of the crawler the site loop is at, no session is open when a run
\* is about to acquire its own or after a run has returned, and sessions are
\* opened in the order of the sites.
C12_OneSessionAtATime ==
    /\ Cardinality(OpenSessions) <= 1
    /\ \A s \in OpenSessions :
          /\ s = Len(sessions)
          /\ sessions[s].owner = ci
          /\ runs[Len(runs)].idx = ci
          /\ pc \in {"loop", "wait", "parse", "pace", "except", "finally"}
                \/ mpc = "raised"
    /\ pc \in {"build_driver", "return"} => OpenSessions = {}
    /\ (pc = "idle" /\ mpc # "raised") => OpenSessions = {}
    /\ pc \in {"loop", "wait", "parse", "pace", "except"} =>
          OpenSessions = {crawlers[ci].driver}
    /\ \A s, t \in 1..Len(sessions) :
          s < t => sessions[s].owner < sessions[t].owner /\ sessions[s].quits = 1

\* The second site of a crawl waits for a page in its own session, and the
\* session of the first site has been quit.
C12_Witness ==
    /\ pc = "wait"
    /\ ci = 2
    /\ Len(sessions) = 2
    /\ sessions[1].quits = 1
    /\ sessions[2] = [owner |-> 2, quits |-> 0]
    /\ crawlers[2].driver = 2

-----------------------------------------------------------------------------
(* C13 *)

\* The site keys in the order the caller asked for them.
RequestOrder ==
    IF sites.keys = <<>> THEN <<"naver", "daum", "hankyung">> ELSE sites.keys

\* The first position of a site key in the request.
SitePos(key) ==
    CHOOSE i \in 1..Len(RequestOrder) :
        /\ RequestOrder[i] = key
        /\ \A j \in 1..(i - 1) : RequestOrder[j] # key

\* The page a record was found on.
PageOf(item) == CHOOSE p \in 1..Len(PageName) : PageName[p] = item.pub_time

\* The results of the first n runs, one after the other.
RECURSIVE ConcatResults(_)
ConcatResults(n) ==
    IF n = 0 THEN <<>> ELSE ConcatResults(n - 1) \o runs[n].results

\* How many calls of BaseCrawler.crawl control has left.
RunsLeft == IF pc = "idle" THEN Len(runs) ELSE Len(runs) - 1


\* C13: all_items is the results of the runs so far, in the order of the
\* runs; the runs are those of the requested keys in request order (registry
\* order without a request); each run's results are in page order; and in
\* the list the crawl returns no record of a site requested later comes
\* before a record of a site requested earlier.
C13_ConcatenationInRequestOrder ==
    /\ mpc \in {"crawling", "done", "raised"} => all_items = ConcatResults(RunsLeft)
    /\ \A i \in 1..Len(runs) :
          /\ runs[i].idx = i
          /\ runs[i].key = RequestOrder[i]
          /\ \A a, b \in 1..Len(runs[i].results) :
                a < b => PageOf(runs[i].results[a]) <= PageOf(runs[i].results[b])
    /\ mpc = "done" =>
          /\ Len(runs) = Len(RequestOrder)
          /\ \A a, b \in 1..Len(returned) :
                a < b => SitePos(returned[a].source) <= SitePos(returned[b].source)

\* A finished crawl of daum, naver that returned records of both, daum's
\* first, and dropped a duplicate.
C13_Witness ==
    /\ mpc = "done"
    /\ sites.keys = <<"daum", "naver">>
    /\ Len(returned) >= 3
    /\ returned[1].source = "daum"
    /\ returned[Len(returned)].source = "naver"
    /\ Len(returned) < Len(all_items)

-----------------------------------------------------------------------------
(* C14 *)

\* C14: every URL navigated is that of the run's site for the keyword and
\* the page, with start = (page - 1) * 10 + 1 on naver (1, 11, 21 for pages
\* 1, 2, 3) and start = page on daum and hankyung; two navigations of the
\* same site and page have the same URL.
C14_PageMapping ==
    \A i \in 1..Len(runs) :
        \A n \in 1..Len(runs[i].navs) :
            LET nav == runs[i].navs[n]
            IN  /\ nav.url.site = runs[i].key
                /\ nav.url.kw = "kw"
                /\ runs[i].key = "naver" => nav.url.start = 10 * nav.page - 9
                /\ (runs[i].key = "naver" /\ nav.page <= 3) =>
                      nav.url.start = <<1, 11, 21>>[nav.page]
                /\ runs[i].key \in {"daum", "hankyung"} => nav.url.start = nav.page
                /\ \A j \in 1..Len(runs) :
                      \A m \in 1..Len(runs[j].navs) :
                          (runs[j].key = runs[i].key /\ runs[j].navs[m].page = nav.page)
                              => runs[j].navs[m].url = nav.url

\* One crawl navigated page 3 of daum at start 3 and page 3 of naver at
\* start 21.
C14_Witness ==
    /\ Len(runs) >= 2
    /\ runs[1].key = "daum"
    /\ runs[2].key = "naver"
    /\ Len(runs[1].navs) = 3
    /\ runs[1].navs[3].url.start = 3
    /\ Len(runs[2].navs) = 3
    /\ runs[2].navs[3].url.start = 21

-----------------------------------------------------------------------------
(* C18 *)

\* C18: the pages a run navigates are 1, 2, ... in this order, each once,
\* and never more than the page count asked for.
C18_PagesInOrderOnce ==
    \A i \in 1..Len(runs) :
        /\ NavPages(runs[i]) = UpTo(Len(runs[i].navs))
        /\ Len(runs[i].navs) <= IF pages > 0 THEN pages ELSE 0

\* A finished three-page run whose page 1 timed out and whose page 2 failed
\* to parse: three navigations.
C18_Witness ==
    /\ pages = 3
    /\ Len(runs) >= 1
    /\ runs[1].end = "completed"
    /\ PagesOfKind(runs[1], {"timed_out"}) = {1}
    /\ PagesOfKind(runs[1], {"extract_failed"}) = {2}
    /\ NavPages(runs[1]) = <<1, 2, 3>>

-----------------------------------------------------------------------------
(* C19 *)

\* C19: after each handled page the accumulated results are the results
\* after the page before followed by the records parse_page returned for the
\* page, if it was ready and parsed, and by nothing otherwise; results of the
\* running call are those after its last handled page.
C19_AccumulatorAppendOnly ==
    \A i \in 1..Len(runs) :
        LET r == runs[i]
        IN  /\ \A j \in 1..Len(r.outcomes) :
                  r.outcomes[j].acc =
                      AccBefore(r, j) \o
                      (IF r.outcomes[j].kind = "extracted"
                       THEN PageBatch(r.key, r.outcomes[j].page)
                       ELSE <<>>)
            /\ (i = Len(runs) /\ pc \notin {"idle", "build_driver"}) =>
                  results = AccBefore(r, Len(r.outcomes) + 1)
            /\ (Left(i) /\ r.end # "raised") =>
                  r.results = AccBefore(r, Len(r.outcomes) + 1)

\* A run that added two records on page 1, nothing on the timed out page 2
\* and is past page 2.
C19_Witness ==
    /\ Len(runs) >= 1
    /\ Len(runs[1].outcomes) >= 2
    /\ runs[1].outcomes[1].kind = "extracted"
    /\ Len(runs[1].outcomes[1].acc) = 2
    /\ runs[1].outcomes[2].kind = "timed_out"
    /\ runs[1].outcomes[2].acc = runs[1].outcomes[1].acc

-----------------------------------------------------------------------------
(* C20 *)

Range(f) == {f[i] : i \in 1..Len(f)}

\* The records parse_page returned to the runs so far.
Parsed ==
    UNION {UNION {Range(PageBatch(runs[i].key, p)) :
                     p \in PagesOfKind(runs[i], {"extracted"})} :
              i \in 1..Len(runs)}

\* C20: every record of the list the crawl returns is a record of the list
\* given to _deduplicate, that list is still the concatenation of the runs'
\* results, and every record in results and in all_items is a record
\* parse_page returned, with its six fields as they were.
C20_AggregationOnlyFilters ==
    /\ Range(results) \subseteq Parsed
    /\ Range(all_items) \subseteq Parsed
    /\ mpc = "done" =>
          /\ Range(returned) \subseteq Range(all_items)
          /\ all_items = ConcatResults(Len(runs))
          /\ \A i \in 1..Len(returned) :
                DOMAIN returned[i] =
                    {"title", "press", "pub_time", "url", "source", "crawled_at"}

\* A finished crawl that returned daum's copy of the shared article, blank
\* in the url included, and dropped naver's.
C20_Witness ==
    /\ mpc = "done"
    /\ Len(returned) < Len(all_items)
    /\ \E i \in 1..Len(returned) :
          /\ returned[i].source = "daum"
          /\ returned[i].url = <<"u", " ">>
    /\ \E i \in 1..Len(all_items) :
          /\ all_items[i].source = "naver"
          /\ all_items[i].url = <<"u">>

-----------------------------------------------------------------------------
(* The specification of parse_page alone: one page of cards, read one by one *)

\* the most cards on the page
MaxCards == 2

\* What find_element gives for one selector: no element (it raises
\* NoSuchElementException), or an element with its text and its href.
Absent == [found |-> FALSE, text |-> <<>>, href |-> <<>>]

Element(text, href) == [found |-> TRUE, text |-> text, href |-> href]

\* BaseCrawler.safe_text
safe_text(el) == IF el.found THEN Strip(el.text) ELSE <<>>

\* BaseCrawler.safe_attr: get_attribute(attr) or default
safe_attr(el) == IF el.found THEN el.href ELSE <<>>

\* a or b or c ... over strings: the first that is not empty
RECURSIVE FirstNonEmpty(_)
FirstNonEmpty(strs) ==
    IF strs = <<>> THEN <<>>
    ELSE IF Head(strs) # <<>> THEN Head(strs)
    ELSE FirstNonEmpty(Tail(strs))

\* How many selectors each adapter tries for the title, the url, the press.
TitleSelectors(site) == IF site = "naver" THEN 1 ELSE 4

UrlSelectors(site) == IF site = "naver" THEN 1 ELSE 3

PressSelectors(site) == IF site = "daum" THEN 3 ELSE 2

\* The press of a record without a press element: the literal of
\* NaverCrawler and DaumCrawler, and the one of HankyungCrawler, which is the
\* name of the paper.
UnknownPress == <<"unknown">>

HankyungPress == <<"hankyung">>

HankyungBase == <<"https://www.hankyung.com">>

TitleOf(site, card) ==
    FirstNonEmpty([k \in 1..TitleSelectors(site) |-> safe_text(card.tit[k])])

UrlOf(site, card) ==
    LET url == FirstNonEmpty([k \in 1..UrlSelectors(site) |-> safe_attr(card.tit[k])])
    IN  IF site = "hankyung" /\ url # <<>> /\ Head(url) = "/"
        THEN HankyungBase \o url
        ELSE url

\* Faulty variant: no fallback for a card without a press.
PressOfNoFallback(site, card) ==
    FirstNonEmpty([k \in 1..PressSelectors(site) |-> safe_text(card.press[k])])

\* press or "..." of the three parse_page
PressOf(site, card) ==
    LET press == FirstNonEmpty([k \in 1..PressSelectors(site) |->
                                   safe_text(card.press[k])])
    IN  IF press # <<>> THEN press
        ELSE IF site = "hankyung" THEN HankyungPress
        ELSE UnknownPress

TimeOf(site, card) == safe_text(card.time)

\* Faulty variant: a card without a title gives a record all the same.
ParseCardKeepsUntitled(site, card) ==
    <<NewsItem(TitleOf(site, card), PressOf(site, card), TimeOf(site, card),
               UrlOf(site, card), site)>>

\* The body of `for card in cards`: the records the card adds to items.
ParseCard(site, card) ==
    LET title == TitleOf(site, card)
    IN  IF title = <<>> THEN <<>>
        ELSE <<NewsItem(title, PressOf(site, card), TimeOf(site, card),
                        UrlOf(site, card), site)>>

\* The cards a page can have.  In a chain of title elements at most one has
\* text, the others are all absent or all blank; the same for the press.
TitleName == <<"t1", "t2", "t3", "t4">>

PressName == <<"p1", "p2", "p3">>

BlankElement == Element(<<" ">>, <<>>)

Hrefs == {<<>>, <<"/", "a">>}

TitleChains ==
    {[k \in 1..4 |-> IF k = hit THEN Element(<<" ", TitleName[k]>>, href) ELSE miss] :
        hit \in 0..4, miss \in {Absent, BlankElement}, href \in Hrefs}

PressChains ==
    {[k \in 1..3 |-> IF k = hit THEN Element(<<PressName[k], " ">>, <<>>) ELSE miss] :
        hit \in 0..3, miss \in {Absent, BlankElement}}

Cards ==
    {[tit |-> t, press |-> p, time |-> Element(<<"9", " ">>, <<>>)] :
        t \in TitleChains, p \in PressChains}

\* Whether some selector of the chain finds an element with text in it.
HasText(chain, n) ==
    \E k \in 1..n : chain[k].found /\ \E i \in 1..Len(chain[k].text) : chain[k].text[i] # " "

CrawlOff ==
    /\ sites = None
    /\ pages = 0
    /\ mpc = "off"
    /\ errorKeys = {}
    /\ crawlers = <<>>
    /\ ci = 0
    /\ all_items = <<>>
    /\ returned = <<>>
    /\ pc = "idle"
    /\ page = 0
    /\ results = <<>>
    /\ sessions = <<>>
    /\ runs = <<>>
    /\ faults = 0

DedupOff ==
    /\ dd_pc = "off"
    /\ dd_in = <<>>
    /\ dd_out = <<>>
    /\ dd_out2 = <<>>

\* items = []; cards = driver.find_elements(...)
InitParse ==
    /\ CrawlOff
    /\ DedupOff
    /\ SentimentOff
    /\ pp_pc = "cards"
    /\ pp_site \in {"naver", "daum", "hankyung"}
    /\ pp_n \in 0..MaxCards
    /\ pp_items = <<>>
    /\ pp_log = <<>>

\* One turn of `for card in cards`.
ParseCardStep ==
    /\ pp_pc = "cards"
    /\ Len(pp_log) < pp_n
    /\ \E card \in Cards :
          LET new == ParseCard(pp_site, card)
          IN  /\ pp_items' = pp_items \o new
              /\ pp_log' = Append(pp_log,
                     [titled  |-> HasText(card.tit, TitleSelectors(pp_site)),
                      pressed |-> HasText(card.press, PressSelectors(pp_site)),
                      kept    |-> Len(new),
                      raised  |-> FALSE])
    /\ UNCHANGED <<pp_pc, pp_site, pp_n>>
    /\ UNCHANGED <<crawlVars, ddVars, sentVars>>

\* A card that left the page while it was read: find_element raises an
\* exception safe_text does not catch, and parse_page raises it.
ParseCardStale ==
    /\ pp_pc = "cards"
    /\ Len(pp_log) < pp_n
    /\ pp_pc' = "raised"
    /\ pp_log' = Append(pp_log, [titled |-> FALSE, pressed |-> FALSE,
                                 kept |-> 0, raised |-> TRUE])
    /\ UNCHANGED <<pp_site, pp_n, pp_items>>
    /\ UNCHANGED <<crawlVars, ddVars, sentVars>>

\* return items
ParseReturn ==
    /\ pp_pc = "cards"
    /\ Len(pp_log) = pp_n
    /\ pp_pc' = "done"
    /\ UNCHANGED <<pp_site, pp_n, pp_items, pp_log>>
    /\ UNCHANGED <<crawlVars, ddVars, sentVars>>

NextParse ==
    \/ ParseCardStep
    \/ ParseCardStale
    \/ ParseReturn

SpecParse == InitParse /\ [][NextParse]_vars

\* How many records the first j cards added to items.
RECURSIVE KeptUpTo(_)
KeptUpTo(j) == IF j = 0 THEN 0 ELSE KeptUpTo(j - 1) + pp_log[j].kept

-----------------------------------------------------------------------------
(* C15 *)

\* C15: every record parse_page has in items has a title that is not empty;
\* a card adds a record exactly if one of the adapter's title selectors finds
\* text, a card without one adds nothing, does not make parse_page raise, and
\* parse_page returns only after it has read every card.
C15_TitleNeverEmpty ==
    /\ \A i \in 1..Len(pp_items) :
          /\ pp_items[i].title # <<>>
          /\ ~Blank(pp_items[i].title)
    /\ \A j \in 1..Len(pp_log) :
          /\ pp_log[j].kept = IF pp_log[j].titled THEN 1 ELSE 0
          /\ pp_log[j].raised => (j = Len(pp_log) /\ pp_pc = "raised")
    /\ Len(pp_items) = KeptUpTo(Len(pp_log))
    /\ pp_pc = "raised" => (pp_log # <<>> /\ pp_log[Len(pp_log)].raised)
    /\ pp_pc = "done" => Len(pp_log) = pp_n

\* parse_page of daum returned: its first card had no title and added
\* nothing, its second card had its title under the last selector only and
\* is the one record.
C15_Witness ==
    /\ pp_pc = "done"
    /\ pp_site = "daum"
    /\ Len(pp_log) = 2
    /\ ~pp_log[1].titled
    /\ pp_log[2].titled
    /\ Len(pp_items) = 1
    /\ pp_items[1].title = <<"t4">>

-----------------------------------------------------------------------------
(* C16 *)

\* The cards read so far that added a record and had no press to extract.
Unpressed == {j \in 1..Len(pp_log) : pp_log[j].kept = 1 /\ ~pp_log[j].pressed}

\* C16 as the specification has it: the press of a record whose card had no
\* press to extract is the same "unknown" literal on every site.
C16_OneSentinelForAllSites ==
    \A j \in Unpressed : pp_items[KeptUpTo(j)].press = UnknownPress

\* C16: the press of a record whose card had no press to extract is the
\* "unknown" literal on naver and daum and the name of the paper on
\* hankyung; the press of a record is never empty, and it is the text of the
\* first press element with text where the card has one.
C16_SentinelPerSite ==
    /\ \A j \in Unpressed :
          pp_items[KeptUpTo(j)].press =
              IF pp_site = "hankyung" THEN HankyungPress ELSE UnknownPress
    /\ \A i \in 1..Len(pp_items) :
          /\ pp_items[i].press # <<>>
          /\ pp_items[i].source = pp_site
    /\ \A j \in 1..Len(pp_log) :
          (pp_log[j].kept = 1 /\ pp_log[j].pressed) =>
              pp_items[KeptUpTo(j)].press \in {<<PressName[k]>> : k \in 1..3}

\* parse_page of hankyung returned a record for a card without a press, and
\* one for a card with a press.
C16_Witness ==
    /\ pp_pc = "done"
    /\ pp_site = "hankyung"
    /\ Len(pp_items) = 2
    /\ Unpressed = {1}
    /\ pp_items[1].press = HankyungPress
    /\ pp_items[2].press = <<"p2">>

-----------------------------------------------------------------------------
(* The specification of SentimentAnalyzer._score_title alone, over every
   short title.  A title is a sequence of syllables; scores are in
   thousandths. *)

\* the longest title
MaxTitle == 4

\* A part of the lexicon, in the order of all_dict: <<"g","c">> stands for the
\* one word of POSITIVE_DICT with 0.5, <<"s","i">> for one with 1.0,
\* <<"h","r">> for one of NEGATIVE_DICT with -1.5.
all_dict ==
    << [word |-> <<"g", "c">>, base_score |-> 500],
       [word |-> <<"s", "i">>, base_score |-> 1000],
       [word |-> <<"h", "r">>, base_score |-> -1500] >>

\* Two of the NEGATION_WORDS, each of one syllable.
NEGATION_WORDS == << <<"a">>, <<"m">> >>

POS_THRESHOLD == 500

NEG_THRESHOLD == -500

\* how many characters in front of a word are searched for a negation
ContextWidth == 5

Syllables == {" ", "a", "m", "g", "c", "s", "i", "h", "r"}

\* The arguments: a string, or a value that is no string (None, NaN).
TitleInputs ==
    {[str |-> TRUE, text |-> t] : t \in UNION {[1..n -> Syllables] : n \in 0..MaxTitle}}
        \cup {[str |-> FALSE, text |-> <<>>]}

\* The positions at which word occurs in title.
Occurrences(word, title) ==
    {i \in 1..(Len(title) - Len(word) + 1) : SubSeq(title, i, i + Len(word) - 1) = word}

\* word in title
Contains(word, title) == Occurrences(word, title) # {}

\* title.find(word), counted from 1
Find(word, title) ==
    CHOOSE i \in Occurrences(word, title) : \A k \in Occurrences(word, title) : i <= k

\* title[max(0, idx - 5): idx]
ContextBefore(word, title) ==
    LET i == Find(word, title)
        from == IF i - ContextWidth > 1 THEN i - ContextWidth ELSE 1
    IN  SubSeq(title, from, i - 1)

\* any(neg in context_before for neg in NEGATION_WORDS)
HasNegation(word, title) ==
    \E n \in 1..Len(NEGATION_WORDS) :
        Contains(NEGATION_WORDS[n], ContextBefore(word, title))

\* for word, base_score in self.all_dict.items(), from the k-th entry on
RECURSIVE ScoreLoop(_, _, _)
ScoreLoop(title, k, acc) ==
    IF k > Len(all_dict) THEN acc
    ELSE LET word == all_dict[k].word
             base_score == all_dict[k].base_score
         IN  IF ~Contains(word, title) THEN ScoreLoop(title, k + 1, acc)
             ELSE LET actual_score ==
                          IF HasNegation(word, title) THEN 0 - base_score
                          ELSE base_score
                  IN  ScoreLoop(title, k + 1,
                          [total_score |-> acc.total_score + actual_score,
                           matched_pos |-> IF actual_score > 0
                                           THEN Append(acc.matched_pos, word)
                                           ELSE acc.matched_pos,
                           matched_neg |-> IF actual_score < 0
                                           THEN Append(acc.matched_neg, word)
                                           ELSE acc.matched_neg])

Scored(title) ==
    ScoreLoop(title, 1, [total_score |-> 0, matched_pos |-> <<>>, matched_neg |-> <<>>])

\* Faulty variant: a score on a threshold takes the label beyond it.
LabelInclusive(total_score) ==
    IF total_score >= POS_THRESHOLD THEN "positive"
    ELSE IF total_score <= NEG_THRESHOLD THEN "negative"
    ELSE "neutral"

\* The three-way classification of the total.
Label(total_score) ==
    IF total_score > POS_THRESHOLD THEN "positive"
    ELSE IF total_score < NEG_THRESHOLD THEN "negative"
    ELSE "neutral"

\* round(total_score, 2): to the nearest hundredth, a tie to the even one
Round2(x) ==
    LET a == IF x < 0 THEN 0 - x ELSE x
        q == a \div 10
        r == a % 10
        m == IF r > 5 \/ (r = 5 /\ q % 2 = 1) THEN (q + 1) * 10 ELSE q * 10
    IN  IF x < 0 THEN 0 - m ELSE m

\* SentimentAnalyzer._score_title
score_title(title) ==
    IF ~title.str \/ Strip(title.text) = <<>>
    THEN [score |-> 0, sentiment |-> "neutral",
          matched_pos |-> <<>>, matched_neg |-> <<>>]
    ELSE LET acc == Scored(title.text)
         IN  [score |-> Round2(acc.total_score),
              sentiment |-> Label(acc.total_score),
              matched_pos |-> acc.matched_pos,
              matched_neg |-> acc.matched_neg]

InitSentiment ==
    /\ CrawlOff
    /\ DedupOff
    /\ ParseOff
    /\ st_pc = "input"
    /\ st_title \in TitleInputs
    /\ st_result = [score |-> 0, sentiment |-> "neutral",
                    matched_pos |-> <<>>, matched_neg |-> <<>>]

\* score_single(text)
ScoreTitle ==
    /\ st_pc = "input"
    /\ st_pc' = "scored"
    /\ st_result' = score_title(st_title)
    /\ UNCHANGED st_title
    /\ UNCHANGED <<crawlVars, ddVars, parseVars>>

NextSentiment == ScoreTitle

SpecSentiment == InitSentiment /\ [][NextSentiment]_vars

-----------------------------------------------------------------------------
(* C17 *)

\* The sum of the signed scores of the lexicon words in the title scored,
\* 0 for a title that is no string or has nothing but blanks.
SummedScore ==
    IF st_title.str /\ ~Blank(st_title.text)
    THEN Scored(st_title.text).total_score
    ELSE 0

\* C17: the label of a scored title is one of three; it is positive exactly
\* if the summed score is above +0.5, negative exactly if it is below -0.5
\* and neutral otherwise, +0.5 and -0.5 included; a title that is no string,
\* empty or blank has score 0, the neutral label and no matched words.
C17_ThreeWayLabel ==
    st_pc = "scored" =>
        /\ st_result.sentiment \in {"positive", "negative", "neutral"}
        /\ st_result.sentiment = "positive" <=> SummedScore > 500
        /\ st_result.sentiment = "negative" <=> SummedScore < -500
        /\ st_result.sentiment = "neutral" <=>
              (SummedScore >= -500 /\ SummedScore <= 500)
        /\ st_result.score = SummedScore
        /\ (~st_title.str \/ Blank(st_title.text)) =>
              /\ st_result.score = 0
              /\ st_result.sentiment = "neutral"
              /\ st_result.matched_pos = <<>>
              /\ st_result.matched_neg = <<>>

\* The 0.5 word after a negation was scored: -0.5, neutral, matched as
\* negative.
C17_Witness ==
    /\ st_pc = "scored"
    /\ st_title = [str |-> TRUE, text |-> <<"a", "g", "c">>]
    /\ st_result.score = -500
    /\ st_result.sentiment = "neutral"
    /\ st_result.matched_neg = << <<"g", "c">> >>
    /\ st_result.matched_pos = <<>>

-----------------------------------------------------------------------------
(* C22 *)

\* Whether the record has a url once it is trimmed.
HasUrl(item) == ~Blank(item.url)

\* Whether two records have a key of the same kind and the same key.
SameKindSameKey(a, b) ==
    \/ HasUrl(a) /\ HasUrl(b) /\ Trimmed(a.url) = Trimmed(b.url)
    \/ ~HasUrl(a) /\ ~HasUrl(b) /\ Trimmed(a.title) = Trimmed(b.title)

\* C22: a record given to _deduplicate is dropped only if an earlier record
\* has a key of the same kind and the same key; in particular a record
\* without a url whose title is the url of an earlier record is kept.
C22_NoCrossKindDuplicates ==
    dd_pc \in {"once", "twice"} =>
        \A j \in 1..Len(dd_in) :
            (\A i \in 1..(j - 1) : ~SameKindSameKey(dd_in[i], dd_in[j]))
                => \E k \in 1..Len(dd_out) : dd_out[k] = dd_in[j]

-----------------------------------------------------------------------------
(* C23 *)

\* What build_url and driver.get can fail with.
FetchFailures == {"url_failed", "nav_failed", "nav_timed_out"}

\* The outcome the run logged for page p, if it logged one.
OutcomesAt(r, p) == {j \in 1..Len(r.outcomes) : r.outcomes[j].page = p}

\* C23: an exception of build_url or of driver.get, a TimeoutException
\* included, is the last thing its run handles: no later page is begun, the
\* run ends aborted and returns the records it had; a page after which the
\* next one is navigated with no pacing in between is one whose readiness
\* wait timed out.
C23_FetchFailureAborts ==
    \A i \in 1..Len(runs) :
        LET r == runs[i]
            n == Len(r.outcomes)
        IN  /\ \A j \in 1..n :
                  r.outcomes[j].kind \in FetchFailures =>
                      /\ j = n
                      /\ PagesBegun(r) = r.outcomes[j].page
                      /\ r.outcomes[j].acc = AccBefore(r, j)
                      /\ PastLoop(i)
                      /\ r.end \in {"running", "aborted"}
                      /\ r.end = "running" => (i = Len(runs) /\ pc = "except")
                      /\ ResultsOf(i) = r.outcomes[j].acc
                      /\ r.paces = <<>> \/ r.paces[Len(r.paces)] < r.outcomes[j].page
            /\ \A m \in 1..Len(r.navs) :
                  r.navs[m].page > 1 =>
                      /\ OutcomesAt(r, r.navs[m].page - 1) # {}
                      /\ \A j \in OutcomesAt(r, r.navs[m].page - 1) :
                            /\ r.outcomes[j].kind \notin FatalKinds
                            /\ (\A k \in 1..Len(r.paces) :
                                    r.paces[k] # r.navs[m].page - 1)
                                  => r.outcomes[j].kind = "timed_out"

\* A three-page run that had the two records of page 1 when driver.get
\* raised a TimeoutException on page 2: it returned the two records and
\* page 3 was never navigated.
C23_Witness ==
    /\ pages = 3
    /\ Len(runs) >= 1
    /\ Left(1)
    /\ runs[1].end = "aborted"
    /\ Len(runs[1].outcomes) = 2
    /\ runs[1].outcomes[1].kind = "extracted"
    /\ runs[1].outcomes[2].kind = "nav_timed_out"
    /\ NavPages(runs[1]) = <<1, 2>>
    /\ Len(runs[1].results) = 2

-----------------------------------------------------------------------------
(* C24 *)

\* The sessions opened for the i-th call of BaseCrawler.crawl.
SessionsOf(i) == {x \in 1..Len(sessions) : sessions[x].owner = i}

\* C24: in a crawl for zero pages or fewer, every call of BaseCrawler.crawl
\* navigates no page, waits for none, parses none and never sleeps; it is
\* never aborted; once build_driver has returned it has one session of its
\* own, which is open while the call is in its loop and has been quit once
\* when the call has returned; and it returns the empty list.
C24_NoPagesStillOpensAndClosesSession ==
    pages <= 0 =>
        \A i \in 1..Len(runs) :
            LET r == runs[i]
            IN  /\ r.navs = <<>>
                /\ r.outcomes = <<>>
                /\ r.paces = <<>>
                /\ r.results = <<>>
                /\ r.end \in {"running", "completed", "raised"}
                /\ i = Len(runs) => results = <<>>
                /\ (i = Len(runs) /\ pc = "build_driver") => SessionsOf(i) = {}
                /\ (i = Len(runs) /\ pc \in {"loop", "finally"}) =>
                      /\ Cardinality(SessionsOf(i)) = 1
                      /\ \A x \in SessionsOf(i) : sessions[x].quits = 0
                /\ ((i < Len(runs) \/ pc \in {"return", "idle"}) /\ r.end # "raised") =>
                      /\ r.end = "completed"
                      /\ Cardinality(SessionsOf(i)) = 1
                      /\ \A x \in SessionsOf(i) : sessions[x].quits = 1

\* A call for zero pages has returned: one session, quit once, no page, no
\* record.
C24_Witness ==
    /\ pages = 0
    /\ Len(runs) >= 1
    /\ Left(1)
    /\ runs[1].end = "completed"
    /\ runs[1].navs = <<>>
    /\ runs[1].results = <<>>
    /\ Len(sessions) >= 1
    /\ sessions[1] = [owner |-> 1, quits |-> 1]

-----------------------------------------------------------------------------
(* C21 *)

\* The crawl with its scheduling: one thread runs the statements one after
\* the other, wait.until gives up after wait_sec and time.sleep returns
\* after at most delay_range[1], so the step that is next is taken.
SpecFair == Spec /\ WF_vars(Next)

InRun == pc \in {"loop", "wait", "parse", "pace", "except", "finally"}

\* The call of BaseCrawler.crawl is at its return with its session quit.
RunEnded ==
    /\ pc = "return"
    /\ crawlers[ci].driver = 0
    /\ \A x \in 1..Len(sessions) : sessions[x].quits = 1

\* MultiSiteCrawler.crawl has returned the deduplicated list.
CrawlReturned == mpc = "done" /\ returned = Deduplicate(all_items)

\* C21: a call of BaseCrawler.crawl that has its session reaches its return
\* with the session quit, whatever its pages do; a MultiSiteCrawler.crawl
\* that was started returns its deduplicated list, or is left by an
\* exception of build_driver, and by nothing else.
C21_EveryRunTerminates ==
    /\ InRun ~> RunEnded
    /\ (mpc = "crawling") ~> (CrawlReturned \/ mpc = "raised")
    /\ [](mpc = "raised" => (runs # <<>> /\ runs[Len(runs)].end = "raised"
                              /\ runs[Len(runs)].outcomes = <<>>))

\* A crawl has returned whose first run had a ready page, a page that timed
\* out and a page whose navigation failed, and every session is quit.
C21_Witness ==
    /\ CrawlReturned
    /\ Len(runs) >= 2
    /\ Len(runs[1].outcomes) = 3
    /\ runs[1].outcomes[1].kind = "extracted"
    /\ runs[1].outcomes[2].kind = "timed_out"
    /\ runs[1].outcomes[3].kind = "nav_failed"
    /\ runs[1].end = "aborted"
    /\ \A x \in 1..Len(sessions) : sessions[x].quits = 1

-----------------------------------------------------------------------------
(* C25 *)

\* The runs of the c-th call of MultiSiteCrawler.crawl, by their place in runs.
RunsOfCall(c) == {i \in 1..Len(runs) : runs[i].call = c}

\* The c-th call of MultiSiteCrawler.crawl has returned.
CallReturned(c) ==
    /\ c <= CallsMade
    /\ \A i \in RunsOfCall(c) : runs[i].end # "raised"
    /\ c = CallsMade => mpc = "done"

\* C25: a call of MultiSiteCrawler.crawl that has returned has made one site
\* run for each entry of the request, in the order of the request, a key
\* listed twice having two runs; every run whose build_driver returned has
\* one session of its own, opened after every session of the runs before
\* it; and self._driver of an adapter is None whenever its crawl is not
\* executing, so that a second call of crawl runs every site again.
C25_OneFreshRunPerEntry ==
    /\ \A c \in {1, 2} :
          CallReturned(c) =>
              /\ Cardinality(RunsOfCall(c)) = Len(RequestOrder)
              /\ \A i \in RunsOfCall(c) :
                    /\ runs[i].key = RequestOrder[runs[i].idx]
                    /\ \A j \in RunsOfCall(c) :
                          (i < j) <=> (runs[i].idx < runs[j].idx)
    /\ \A i \in 1..Len(runs) :
          /\ (runs[i].end \in {"completed", "aborted"}) =>
                Cardinality(SessionsOf(i)) = 1
          /\ Cardinality(SessionsOf(i)) <= 1
          /\ \A j \in 1..Len(runs) :
                i < j => \A x \in SessionsOf(i), y \in SessionsOf(j) : x < y
    /\ \A k \in 1..Len(crawlers) :
          (k # ci \/ pc \in {"idle", "build_driver", "return"}) =>
              crawlers[k].driver = 0

\* hankyung was asked for twice and crawl was called twice: four runs of
\* hankyung, four sessions, one for each run, all quit.
C25_Witness ==
    /\ mpc = "done"
    /\ sites.keys = <<"hankyung", "hankyung">>
    /\ pages = 1
    /\ CallsMade = 2
    /\ Len(runs) = 4
    /\ \A i \in 1..4 : runs[i].key = "hankyung" /\ runs[i].call = (i + 1) \div 2
    /\ Len(sessions) = 4
    /\ \A x \in 1..4 : sessions[x] = [owner |-> x, quits |-> 1]

====
